---- MODULE Spec2Model ----
(***************************************************************************)
(* Model of the numeric core of Ferro:                                     *)
(*   - LandauFilm.calcEfePreisach  (Preisach hysteron sweep)               *)
(*   - LandauFilm.domainGen        (domains drawn from a FORC grid)        *)
(*   - HysteresisData.forc_calc    (reversal-curve extraction, density)    *)
(*   - HysteresisData.leakage_compensation, LeakageData.lcm_fit            *)
(*   - LandauFilm.cCompensation                                            *)
(*                                                                         *)
(* Real numbers are modelled as exact rationals [num, den] in lowest terms *)
(* with den > 0; floating-point rounding is outside the model.             *)
(***************************************************************************)
EXTENDS Integers, Sequences, FiniteSets, TLC

VARIABLES
    pc,          \* position of the running operation
    err,         \* exception raised by the operation, "none" if none
    area,        \* LandauFilm.area (self.area), a rational
    pr,          \* LandauFilm.pr (self.pr)
    \* ---- calcEfePreisach
    esweep,      \* argument esweep: sequence of field values
    domains,     \* argument domains: sequence of LandauDomain records
    initState,   \* argument initState: [given, val]; given = FALSE is None
    state,       \* local state: one entry per domain
    stateIs,     \* which array state is bound to: "unset", "fresh" or "initState"
    sweepDir,    \* local sweepDir = np.gradient(esweep)
    p,           \* local p, one entry per sweep step
    j,           \* index of the next sweep step (1-based)
    after,       \* history: the state vector at the end of every sweep step
    \* ---- domainGen
    e,           \* argument e: E axis of the grid
    er,          \* argument er: Er axis of the grid
    prob,        \* argument prob: 2-d masked array, rows = Er, columns = E
    n,           \* argument n: number of domains to draw
    probf,       \* local probf: the filled, flattened grid
    domainList,  \* local domainList
    domainParms, \* local 2-d array "domains": rows (E, Er, Ec, Ebias)
    drawn,       \* history: the flat index drawn for every domain
    \* ---- forc_calc
    voltage,     \* self.voltage
    polarization, \* self.polarization
    thickness,   \* self.thickness
    minimaIndex, \* local minimaIndex
    maximaIndex, \* local maximaIndex
    vrFORC,      \* local vrFORC
    vFORC,       \* local vFORC
    pFORC,       \* local pFORC (samples of self.polarization)
    eFORC,       \* local eFORC
    erFORC,      \* local erFORC
    fi,          \* number of minima the extraction loop has processed
    curves,      \* history: per processed minimum, the index span it emitted
    \* ---- forc_calc, density of the mixed partial (lines 635-640)
    dEdEr,       \* local dEdEr: 2-d masked array, the mixed partial
    filtIter,    \* argument filtIter: [given, val]; given = FALSE is None
    filtDim,     \* argument filtDim: <<size along Er, size along E>>
    mask,        \* local mask: [nomask, cells], np.ma.nomask or a 2-d array of booleans
    forcProb,    \* local prob of forc_calc: the returned 2-d masked array
    unsmoothed,  \* history: dEdEr as np.gradient returned it
    \* ---- leakage_compensation, lcm_fit, cCompensation
    caller,      \* what the calling script does: "leak" or "cap"
    heap,        \* the arrays that exist, by identity: heap[id] is a sequence
    data,        \* the input sample (self / data): array ids, dt and area
    compData,    \* local compData: array ids, dt and area; ids 0 before the copy
    ret,         \* the returned sample: "none", "self" or "copy"
    lcmParms,    \* LeakageData.lcmParms: <<>> or the 7 fitted coefficients
    warned,      \* whether the RuntimeWarning of line 363 was issued
    filmC,       \* LandauFilm.c (self.c)
    prRet,       \* the pr that cCompensation returns
    fitLog,      \* history: one entry per lcm_fit call
    heap0,       \* history: the heap when the compensation was called
    firstOut,    \* history: current and polarization the first compensation returned
    \* ---- cCalc
    files,       \* argument files: the samples the files hold
    dvdt,        \* local dvdt, one entry per sample
    medI,        \* local medI, one entry per sample
    capRet,      \* the capacitance cCalc returns: [given, val]
    \* ---- LandauDomain.parmCalc
    dom,         \* the domain (self)
    domC,        \* self.c of the domain
    solve,       \* history: what minimize returned: [called, success, x]
    \* ---- calcEfePreisach continued over a split sweep
    whole,       \* history: the sweep before it was split
    rest,        \* the part of the sweep still to run
    runNo,       \* 0 without a split, else the number of the running part
    firstP,      \* history: the output of the first part
    \* ---- forc_calc, the two np.gradient calls (lines 632-633)
    pGrid,       \* local grid (the gridded P): rows = Er, columns = E
    uniformVr,   \* local uniformVr
    uniformV,    \* local uniformV
    dE,          \* local dE: first result of the first np.gradient
    dEr,         \* local dEr: second result of the first np.gradient
    dEdE         \* local dEdE: first result of the second np.gradient

filmVars == <<area, pr>>
preisachVars == <<esweep, domains, initState, state, stateIs, sweepDir, p, j, after>>
genVars == <<e, er, prob, n, probf, domainList, domainParms, drawn>>
forcVars == <<voltage, polarization, thickness, minimaIndex, maximaIndex,
              vrFORC, vFORC, pFORC, eFORC, erFORC, fi, curves>>
densVars == <<dEdEr, filtIter, filtDim, mask, forcProb, unsmoothed>>
compVars == <<caller, heap, data, compData, ret, lcmParms, warned, filmC, prRet,
              fitLog, heap0>>
chainVars == <<firstOut>>
calcVars == <<files, dvdt, medI, capRet>>
parmVars == <<dom, domC, solve>>
splitVars == <<whole, rest, runNo, firstP>>
gradVars == <<pGrid, uniformVr, uniformV, dE, dEr, dEdE>>
moreVars == <<chainVars, calcVars, parmVars, splitVars, gradVars>>
vars == <<pc, err, filmVars, preisachVars, genVars, forcVars, densVars, compVars,
          moreVars>>

----------------------------------------------------------------------------
(* Bounds of the model *)

MaxLen == 3          \* longest generic sweep
MaxDomains == 2      \* most domains of a sweep
MaxRows == 2         \* most Er rows of a probability grid
MaxCols == 2         \* most E columns of a probability grid
MaxMasked == 1       \* most masked cells of a probability grid
MaxN == 2            \* most domains asked of domainGen
MaxSamples == 10     \* most samples of a voltage sequence

----------------------------------------------------------------------------
(* Exact rational arithmetic standing for Python/numpy floats *)

Abs(x) == IF x < 0 THEN -x ELSE x

RECURSIVE GCD(_, _)
GCD(a, b) == IF b = 0 THEN a ELSE GCD(b, a % b)

Rat(num, den) ==
    LET sn == IF den < 0 THEN -num ELSE num
        sd == Abs(den)
        g == GCD(Abs(sn), sd)
    IN [num |-> sn \div g, den |-> sd \div g]

RatOfInt(x) == [num |-> x, den |-> 1]
RatAdd(x, y) == Rat(x.num * y.den + y.num * x.den, x.den * y.den)
RatSub(x, y) == Rat(x.num * y.den - y.num * x.den, x.den * y.den)
RatMul(x, y) == Rat(x.num * y.num, x.den * y.den)
RatDiv(x, y) == Rat(x.num * y.den, x.den * y.num)
RatLeq(x, y) == x.num * y.den <= y.num * x.den
RatNeg(x) == [num |-> -x.num, den |-> x.den]

Zero == RatOfInt(0)

\* s[i] with the 0-based index of the code
At(s, i) == s[i + 1]

RECURSIVE SeqsUpTo(_, _)
SeqsUpTo(S, len) ==
    IF len = 0 THEN {<<>>}
    ELSE LET shorter == SeqsUpTo(S, len - 1)
         IN shorter \cup {Append(s, x) : s \in {t \in shorter : Len(t) = len - 1}, x \in S}

----------------------------------------------------------------------------
(* Idle values of the variables an operation does not use *)

PreisachIdle ==
    /\ esweep = <<>> /\ domains = <<>> /\ initState = [given |-> FALSE, val |-> <<>>]
    /\ state = <<>> /\ stateIs = "unset"
    /\ sweepDir = <<>> /\ p = <<>> /\ j = 0 /\ after = <<>>

GenIdle ==
    /\ e = <<>> /\ er = <<>> /\ prob = <<>> /\ n = 0 /\ probf = <<>>
    /\ domainList = <<>> /\ domainParms = <<>> /\ drawn = <<>>

ForcIdle ==
    /\ voltage = <<>> /\ polarization = <<>> /\ thickness = RatOfInt(1)
    /\ minimaIndex = <<>> /\ maximaIndex = <<>>
    /\ vrFORC = <<>> /\ vFORC = <<>> /\ pFORC = <<>>
    /\ eFORC = <<>> /\ erFORC = <<>> /\ fi = 0 /\ curves = <<>>

DensIdle ==
    /\ dEdEr = <<>> /\ filtIter = [given |-> FALSE, val |-> 0] /\ filtDim = <<1, 1>>
    /\ mask = [nomask |-> TRUE, cells |-> <<>>] /\ forcProb = <<>> /\ unsmoothed = <<>>

\* a sample object that holds no arrays yet
NoSample ==
    [time |-> 0, voltage |-> 0, current |-> 0, polarization |-> 0,
     dt |-> Zero, area |-> RatOfInt(1)]

CompIdle ==
    /\ caller = "none" /\ heap = <<>> /\ data = NoSample /\ compData = NoSample
    /\ ret = "none" /\ lcmParms = <<>> /\ warned = FALSE /\ filmC = Zero
    /\ prRet = Zero /\ fitLog = <<>> /\ heap0 = <<>>

CalcIdle ==
    /\ files = <<>> /\ dvdt = <<>> /\ medI = <<>>
    /\ capRet = [given |-> FALSE, val |-> Zero]

NotSolved == [called |-> FALSE, success |-> FALSE, x |-> <<0, 0, 0>>]

ParmIdle == dom = <<>> /\ domC = Zero /\ solve = NotSolved

SplitIdle == whole = <<>> /\ rest = <<>> /\ runNo = 0 /\ firstP = <<>>

GradIdle ==
    /\ pGrid = <<>> /\ uniformVr = <<>> /\ uniformV = <<>>
    /\ dE = <<>> /\ dEr = <<>> /\ dEdE = <<>>

MoreIdle == firstOut = <<>> /\ CalcIdle /\ ParmIdle /\ SplitIdle /\ GradIdle

----------------------------------------------------------------------------
(* LandauDomain *)

\* LandauDomain.__init__(landau, area, ec, ebias): pr is copied from the film
LandauDomain(landauPr, domArea, ec, ebias) ==
    [pr |-> landauPr, ec |-> ec, ebias |-> ebias, a |-> 0, b |-> 0, g |-> 0,
     area |-> domArea]

----------------------------------------------------------------------------
(* LandauFilm.calcEfePreisach *)

\* np.gradient(f): central differences inside, one-sided at both ends
Gradient(f) ==
    [k \in 1..Len(f) |->
        IF k = 1 THEN RatOfInt(f[2] - f[1])
        ELSE IF k = Len(f) THEN RatOfInt(f[Len(f)] - f[Len(f) - 1])
        ELSE Rat(f[k + 1] - f[k - 1], 2)]

\* Switch without the test of the sweep direction
SwitchNoDir(dir, field, d, s) ==
    IF RatLeq(RatAdd(d.ec, d.ebias), RatOfInt(field)) THEN 1
    ELSE IF RatLeq(RatOfInt(field), RatAdd(RatNeg(d.ec), d.ebias)) THEN -1
    ELSE s

\* Switch with the down threshold taken as ec+ebias instead of -ec+ebias
SwitchSignSlip(dir, field, d, s) ==
    IF dir.num > 0
    THEN (IF RatLeq(RatAdd(d.ec, d.ebias), RatOfInt(field)) THEN 1 ELSE s)
    ELSE IF dir.num < 0
    THEN (IF RatLeq(RatOfInt(field), RatAdd(d.ec, d.ebias)) THEN -1 ELSE s)
    ELSE s

\* Switch that clears the state at a step of direction zero
SwitchZeroDir(dir, field, d, s) ==
    IF dir.num > 0
    THEN (IF RatLeq(RatAdd(d.ec, d.ebias), RatOfInt(field)) THEN 1 ELSE s)
    ELSE IF dir.num < 0
    THEN (IF RatLeq(RatOfInt(field), RatAdd(RatNeg(d.ec), d.ebias)) THEN -1 ELSE s)
    ELSE 0

\* the switching rule of one domain at one step, lines 273-278
Switch(dir, field, d, s) ==
    IF dir.num > 0
    THEN (IF RatLeq(RatAdd(d.ec, d.ebias), RatOfInt(field)) THEN 1 ELSE s)
    ELSE IF dir.num < 0
    THEN (IF RatLeq(RatOfInt(field), RatAdd(RatNeg(d.ec), d.ebias)) THEN -1 ELSE s)
    ELSE s

\* the charge density of the domain instead of its charge
ChargeDensity(d, s) == RatOfInt(d.pr * s)

\* d.pr*d.area*state[i]
Charge(d, s) == RatMul(RatOfInt(d.pr * s), d.area)

\* DomainLoop adding up the charge with the state from before the switch
RECURSIVE DomainLoopStale(_, _, _, _, _, _)
DomainLoopStale(dir, field, doms, st, acc, i) ==
    IF i > Len(doms) THEN [state |-> st, acc |-> acc]
    ELSE LET s2 == Switch(dir, field, doms[i], st[i])
         IN DomainLoopStale(dir, field, doms, [st EXCEPT ![i] = s2],
                            RatAdd(acc, Charge(doms[i], st[i])), i + 1)

\* the inner loop over the domains at one sweep step, lines 272-280
RECURSIVE DomainLoop(_, _, _, _, _, _)
DomainLoop(dir, field, doms, st, acc, i) ==
    IF i > Len(doms) THEN [state |-> st, acc |-> acc]
    ELSE LET s2 == Switch(dir, field, doms[i], st[i])
         IN DomainLoop(dir, field, doms, [st EXCEPT ![i] = s2],
                       RatAdd(acc, Charge(doms[i], s2)), i + 1)

\* Outcomes of "if initState == None" (line 263).  None == None is True.  For a
\* numpy array the comparison is elementwise and the truth value of its result
\* is defined only for exactly one element (False); for any other length the
\* test raises ValueError on numpy >= 1.13, while older numpy (and an argument
\* that is a plain list) evaluates the comparison to the scalar False.
NoneTest(init) ==
    IF ~init.given THEN {"true"}
    ELSE IF Len(init.val) = 1 THEN {"false"}
    ELSE {"false", "raise"}

\* StateBinding with a copy of initState in the place of line 266
StateBindingCopy(t) == "fresh"

\* lines 264 and 266: state is a new array, or the array initState itself
StateBinding(t) == IF t = "true" THEN "fresh" ELSE "initState"

\* lines 263-266; initState holds the argument as it was passed
PreisachInit ==
    /\ pc = "preisach_call"
    /\ \E t \in NoneTest(initState) :
          IF t = "raise"
          THEN /\ pc' = "raised" /\ err' = "ValueError: ambiguous truth value"
               /\ UNCHANGED <<state, stateIs>>
          ELSE /\ pc' = "preisach_gradient" /\ UNCHANGED err
               /\ stateIs' = StateBinding(t)
               /\ state' = IF t = "true" THEN [k \in 1..Len(domains) |-> -1]
                           ELSE initState.val
    /\ UNCHANGED <<filmVars, esweep, domains, initState, sweepDir, p, j, after>>
    /\ UNCHANGED <<genVars, forcVars>>
    /\ UNCHANGED densVars
    /\ UNCHANGED compVars
    /\ UNCHANGED moreVars

\* lines 268-270; np.gradient needs at least two samples
PreisachGradient ==
    /\ pc = "preisach_gradient"
    /\ IF Len(esweep) < 2
       THEN /\ pc' = "raised" /\ err' = "ValueError: gradient"
            /\ UNCHANGED <<sweepDir, p, j>>
       ELSE /\ sweepDir' = Gradient(esweep)
            /\ p' = [k \in 1..Len(esweep) |-> Zero]
            /\ j' = 1
            /\ pc' = "preisach_loop" /\ UNCHANGED err
    /\ UNCHANGED <<filmVars, esweep, domains, initState, state, after>>
    /\ UNCHANGED <<genVars, forcVars>>
    /\ UNCHANGED densVars
    /\ UNCHANGED compVars
    /\ UNCHANGED moreVars
    /\ UNCHANGED stateIs

\* one iteration of the outer loop, lines 271-280
PreisachStep ==
    /\ pc = "preisach_loop"
    /\ j <= Len(esweep)
    /\ LET r == DomainLoop(sweepDir[j], esweep[j], domains, state, p[j], 1)
       IN /\ state' = r.state
          /\ p' = [p EXCEPT ![j] = r.acc]
          /\ after' = Append(after, r.state)
    /\ j' = j + 1
    /\ UNCHANGED <<pc, err, filmVars, esweep, domains, initState, sweepDir>>
    /\ UNCHANGED <<genVars, forcVars>>
    /\ UNCHANGED densVars
    /\ UNCHANGED compVars
    /\ UNCHANGED moreVars
    /\ UNCHANGED stateIs

\* lines 284 and 296: p = p/self.area; return p, state
PreisachFinish ==
    /\ pc = "preisach_loop"
    /\ j > Len(esweep)
    /\ p' = [k \in 1..Len(p) |-> RatDiv(p[k], area)]
    /\ pc' = "preisach_done"
    /\ UNCHANGED <<err, filmVars, esweep, domains, initState, state, sweepDir, j, after>>
    /\ UNCHANGED <<genVars, forcVars>>
    /\ UNCHANGED densVars
    /\ UNCHANGED compVars
    /\ UNCHANGED moreVars
    /\ UNCHANGED stateIs

NextPreisach == PreisachInit \/ PreisachGradient \/ PreisachStep \/ PreisachFinish

\* inputs of the generic sweeps: fields, and domains given as (pr, area, ec, ebias)
Fields == -1..1
DomainPool ==
    { LandauDomain(1, RatOfInt(1), RatOfInt(1), RatOfInt(0)),
      LandauDomain(2, Rat(1, 2), RatOfInt(0), RatOfInt(0)),
      LandauDomain(1, RatOfInt(1), RatOfInt(1), RatOfInt(1)),
      LandauDomain(2, Rat(1, 2), RatOfInt(1), RatOfInt(-1)),
      LandauDomain(1, RatOfInt(1), RatOfInt(2), RatOfInt(0)),
      LandauDomain(2, RatOfInt(1), Rat(1, 2), Rat(1, 2)) }

InitPreisach ==
    /\ pc = "preisach_call" /\ err = "none"
    /\ area = RatOfInt(2) /\ pr = 1
    /\ esweep \in SeqsUpTo(Fields, MaxLen) \ {<<>>}
    /\ domains \in SeqsUpTo(DomainPool, MaxDomains)
    /\ initState \in {[given |-> FALSE, val |-> <<>>]} \cup
                     {[given |-> TRUE, val |-> v] :
                         v \in IF domains = <<>> THEN {} ELSE [1..Len(domains) -> {-1, 1}]}
    /\ state = <<>> /\ stateIs = "unset"
    /\ sweepDir = <<>> /\ p = <<>> /\ j = 0 /\ after = <<>>
    /\ GenIdle /\ ForcIdle
    /\ DensIdle
    /\ CompIdle
    /\ MoreIdle

SpecPreisach == InitPreisach /\ [][NextPreisach]_vars

----------------------------------------------------------------------------
(* The square-loop scenario: one domain with ec = 1, ebias = 0, pr = 1 that   *)
(* covers the whole film and starts at -1; the field rises strictly from -2   *)
(* to +2 and falls strictly back to -2.  The falling branch either repeats    *)
(* the peak sample (esweep followed by esweep[::-1], as in forcDomainTest.py) *)
(* or starts below it.                                                        *)

RECURSIVE Ascending(_)
Ascending(S) ==
    IF S = {} THEN <<>>
    ELSE LET m == CHOOSE x \in S : \A y \in S : x <= y
         IN <<m>> \o Ascending(S \ {m})

Reverse(s) == [k \in 1..Len(s) |-> s[Len(s) + 1 - k]]

TriangleSweeps ==
    { (<<-2>> \o Ascending(A) \o <<2>>) \o peak \o (Reverse(Ascending(B)) \o <<-2>>) :
        A \in SUBSET (-1..1), B \in SUBSET (-1..1), peak \in {<<>>, <<2>>} }

InitSquare ==
    /\ pc = "preisach_call" /\ err = "none"
    /\ area = RatOfInt(2) /\ pr = 1
    /\ esweep \in TriangleSweeps
    /\ domains = <<LandauDomain(pr, area, RatOfInt(1), RatOfInt(0))>>
    /\ initState = [given |-> FALSE, val |-> <<>>]
    /\ state = <<>> /\ stateIs = "unset"
    /\ sweepDir = <<>> /\ p = <<>> /\ j = 0 /\ after = <<>>
    /\ GenIdle /\ ForcIdle
    /\ DensIdle
    /\ CompIdle
    /\ MoreIdle

SpecSquare == InitSquare /\ [][NextPreisach]_vars

----------------------------------------------------------------------------
(* A sweep run in two parts: calcEfePreisach on the first part, then on the   *)
(* second part with initState = the state the first call returned.            *)

\* the caller's second call: p, state = calcEfePreisach(s2, domains, state)
PreisachContinue ==
    /\ pc = "preisach_done" /\ runNo = 1
    /\ firstP' = p
    /\ esweep' = rest /\ rest' = <<>>
    /\ initState' = [given |-> TRUE, val |-> state]
    /\ state' = <<>> /\ stateIs' = "unset"
    /\ sweepDir' = <<>> /\ p' = <<>> /\ j' = 0 /\ after' = <<>>
    /\ runNo' = 2
    /\ pc' = "preisach_call"
    /\ UNCHANGED <<err, filmVars, domains, whole>>
    /\ UNCHANGED <<chainVars, calcVars, parmVars, gradVars>>
    /\ UNCHANGED <<genVars, forcVars, densVars, compVars>>

NextSplit ==
    PreisachInit \/ PreisachGradient \/ PreisachStep \/ PreisachFinish \/ PreisachContinue

\* sweeps of MaxLen + 1 samples cut into two parts of at least 2 samples
\* (np.gradient needs 2); one domain of the pool, or a pair
InitSplit ==
    /\ pc = "preisach_call" /\ err = "none"
    /\ area = RatOfInt(2) /\ pr = 1
    /\ whole \in [1..(MaxLen + 1) -> Fields]
    /\ \E cut \in 2..(Len(whole) - 2) :
          /\ esweep = SubSeq(whole, 1, cut)
          /\ rest = SubSeq(whole, cut + 1, Len(whole))
    /\ domains \in {<<d>> : d \in DomainPool} \cup
                   {<<LandauDomain(1, RatOfInt(1), RatOfInt(1), RatOfInt(0)),
                      LandauDomain(1, RatOfInt(1), RatOfInt(1), RatOfInt(1))>>}
    /\ initState = [given |-> FALSE, val |-> <<>>]
    /\ state = <<>> /\ stateIs = "unset"
    /\ sweepDir = <<>> /\ p = <<>> /\ j = 0 /\ after = <<>>
    /\ runNo = 1 /\ firstP = <<>>
    /\ firstOut = <<>> /\ CalcIdle /\ ParmIdle /\ GradIdle
    /\ GenIdle /\ ForcIdle /\ DensIdle /\ CompIdle

SpecSplit == InitSplit /\ [][NextSplit]_vars

----------------------------------------------------------------------------
(* LandauFilm.domainGen *)

\* Filled without the fill: the data under the mask is kept
FilledRaw(grid) ==
    [r \in 1..Len(grid) |-> [c \in 1..Len(grid[r]) |-> grid[r][c].val]]

\* np.ma.filled(prob, 0), line 186: masked cells become 0
Filled(grid) ==
    [r \in 1..Len(grid) |->
        [c \in 1..Len(grid[r]) |-> IF grid[r][c].mask THEN Zero ELSE grid[r][c].val]]

\* np.ndarray.flatten, line 187: the rows one after the other (C order)
RECURSIVE Flatten(_)
Flatten(grid) ==
    IF grid = <<>> THEN <<>> ELSE Head(grid) \o Flatten(Tail(grid))

RECURSIVE RatSum(_)
RatSum(s) == IF s = <<>> THEN Zero ELSE RatAdd(Head(s), RatSum(Tail(s)))

\* np.random.choice(index, p=probf), line 198: index holds 0..len-1; the draw
\* is any entry of non-zero probability; p must sum to 1
ChoiceValid(pf) == Len(pf) > 0 /\ RatSum(pf) = RatOfInt(1)
Choice(pf) == {k \in 0..(Len(pf) - 1) : pf[k + 1].num > 0}

\* ColOf taking the number of rows, prob.shape[0], for the number of columns
ColOfByRows(jj, grid) == jj % Len(grid)

\* j % prob.shape[1] and j // prob.shape[1], lines 199-200

ColOf(jj, grid) == jj % Len(grid[1])
RowOf(jj, grid) == jj \div Len(grid[1])

\* NewDomain giving every domain the whole film area
NewDomainWholeArea(filmPr, filmArea, count, egrain, ergrain) ==
    LandauDomain(filmPr, filmArea, Rat(egrain - ergrain, 2), Rat(egrain + ergrain, 2))

\* lines 203-205
NewDomain(filmPr, filmArea, count, egrain, ergrain) ==
    LandauDomain(filmPr, RatDiv(filmArea, RatOfInt(count)),
                 Rat(egrain - ergrain, 2), Rat(egrain + ergrain, 2))

\* lines 186-196
GenPrepare ==
    /\ pc = "gen_call"
    /\ probf' = Flatten(Filled(prob))
    /\ domainList' = <<>>
    /\ domainParms' = [k \in 1..n |-> <<Zero, Zero, Zero, Zero>>]
    /\ pc' = "gen_loop"
    /\ UNCHANGED <<err, filmVars, e, er, prob, n, drawn>>
    /\ UNCHANGED <<preisachVars, forcVars>>
    /\ UNCHANGED densVars
    /\ UNCHANGED compVars
    /\ UNCHANGED moreVars

\* one iteration of the loop, lines 197-206; e[...] and er[...] raise
\* IndexError when the axes are shorter than the grid
GenDraw ==
    /\ pc = "gen_loop"
    /\ Len(domainList) < n
    /\ IF ~ChoiceValid(probf)
       THEN /\ pc' = "raised" /\ err' = "ValueError: probabilities do not sum to 1"
            /\ UNCHANGED <<domainList, domainParms, drawn>>
       ELSE \E jj \in Choice(probf) :
               IF \/ ColOf(jj, Filled(prob)) >= Len(e)
                  \/ RowOf(jj, Filled(prob)) >= Len(er)
               THEN /\ pc' = "raised" /\ err' = "IndexError: axis"
                    /\ UNCHANGED <<domainList, domainParms, drawn>>
               ELSE LET egrain == At(e, ColOf(jj, Filled(prob)))
                        ergrain == At(er, RowOf(jj, Filled(prob)))
                        d == NewDomain(pr, area, n, egrain, ergrain)
                    IN /\ domainList' = Append(domainList, d)
                       /\ domainParms' = [domainParms EXCEPT ![Len(domainList) + 1] =
                             <<RatOfInt(egrain), RatOfInt(ergrain), d.ec, d.ebias>>]
                       /\ drawn' = Append(drawn, jj)
                       /\ UNCHANGED <<pc, err>>
    /\ UNCHANGED <<filmVars, e, er, prob, n, probf>>
    /\ UNCHANGED <<preisachVars, forcVars>>
    /\ UNCHANGED densVars
    /\ UNCHANGED compVars
    /\ UNCHANGED moreVars

\* lines 221-224
GenReturn ==
    /\ pc = "gen_loop"
    /\ Len(domainList) >= n
    /\ pc' = "gen_done"
    /\ UNCHANGED <<err, filmVars, genVars, preisachVars, forcVars>>
    /\ UNCHANGED densVars
    /\ UNCHANGED compVars
    /\ UNCHANGED moreVars

NextGen == GenPrepare \/ GenDraw \/ GenReturn

\* probability grids: the cells of S share the probability 1 (S empty gives a
\* grid without any probability), up to MaxMasked other cells are masked and
\* hold arbitrary data under the mask
Cells(rows, cols) == (1..rows) \X (1..cols)
MaskedData == {Zero, RatOfInt(1)}

Grids(rows, cols) ==
    { [r \in 1..rows |-> [c \in 1..cols |->
          IF <<r, c>> \in S THEN [val |-> Rat(1, Cardinality(S)), mask |-> FALSE]
          ELSE IF <<r, c>> \in M THEN [val |-> md, mask |-> TRUE]
          ELSE [val |-> Zero, mask |-> FALSE]]] :
        S \in {T \in SUBSET Cells(rows, cols) : Cardinality(T) <= 2},
        M \in {T \in SUBSET Cells(rows, cols) : Cardinality(T) <= MaxMasked},
        md \in MaskedData }

InitGen ==
    /\ pc = "gen_call" /\ err = "none"
    /\ area = RatOfInt(2) /\ pr \in {1, 2}
    /\ \E rows \in 1..MaxRows, cols \in 1..MaxCols :
          /\ e \in {[c \in 1..cols |-> s + 2 * (c - 1)] : s \in {-1, 0}}
          /\ er = [r \in 1..rows |-> 3 * (r - 1) - 2]
          /\ prob \in Grids(rows, cols)
    /\ n \in 0..MaxN
    /\ probf = <<>> /\ domainList = <<>> /\ domainParms = <<>> /\ drawn = <<>>
    /\ PreisachIdle /\ ForcIdle
    /\ DensIdle
    /\ CompIdle
    /\ MoreIdle

SpecGen == InitGen /\ [][NextGen]_vars

----------------------------------------------------------------------------
(* calcEfePreisach on the domain list domainGen returns *)

\* the (egrain, ergrain) cells of a 2 x 2 grid with e = er = (-1, 1)
GrainPool == {<<eg, erg>> : eg \in {-1, 1}, erg \in {-1, 1}}

\* domainList of domainGen(e, er, prob, n) for the cells drawn
GeneratedDomains(filmPr, filmArea, grains) ==
    [i \in 1..Len(grains) |->
        NewDomain(filmPr, filmArea, Len(grains), grains[i][1], grains[i][2])]

InitFilm ==
    /\ pc = "preisach_call" /\ err = "none"
    /\ area = RatOfInt(2) /\ pr \in {0, 2}
    /\ esweep \in SeqsUpTo(Fields, MaxLen) \ {<<>>}
    /\ \E count \in 1..MaxDomains :
          \E grains \in [1..count -> GrainPool] :
             domains = GeneratedDomains(pr, area, grains)
    /\ initState \in {[given |-> FALSE, val |-> <<>>]} \cup
                     {[given |-> TRUE, val |-> v] : v \in [1..Len(domains) -> {-1, 1}]}
    /\ state = <<>> /\ stateIs = "unset"
    /\ sweepDir = <<>> /\ p = <<>> /\ j = 0 /\ after = <<>>
    /\ GenIdle /\ ForcIdle /\ DensIdle /\ CompIdle /\ MoreIdle

SpecFilm == InitFilm /\ [][NextPreisach]_vars

----------------------------------------------------------------------------
(* HysteresisData.forc_calc, reversal-curve extraction (lines 598-622).      *)
(* Indices are the 0-based indices of the code.                              *)

\* s[lo:hi], a Python slice with 0 <= lo: empty when hi <= lo
Slice(s, lo, hi) ==
    LET top == IF hi > Len(s) THEN Len(s) ELSE hi
    IN IF top <= lo THEN <<>> ELSE [k \in 1..(top - lo) |-> s[lo + k]]

\* [x] * count: empty when count <= 0
Repeat(x, count) == IF count <= 0 THEN <<>> ELSE [k \in 1..count |-> x]

\* the loop of lines 600-608 from index i on: "continue" at i = 0, "break" at
\* i = len - 2, and voltage[i + 1] raises IndexError beyond the last sample
RECURSIVE ScanFrom(_, _, _, _)
ScanFrom(v, i, mins, maxs) ==
    IF i >= Len(v) THEN [ok |-> TRUE, mins |-> mins, maxs |-> maxs]
    ELSE IF i = 0 THEN ScanFrom(v, i + 1, mins, maxs)
    ELSE IF i = Len(v) - 2 THEN [ok |-> TRUE, mins |-> mins, maxs |-> maxs]
    ELSE IF i + 1 >= Len(v) THEN [ok |-> FALSE, mins |-> mins, maxs |-> maxs]
    ELSE ScanFrom(v, i + 1,
            IF At(v, i) < At(v, i - 1) /\ At(v, i) < At(v, i + 1)
               THEN Append(mins, i) ELSE mins,
            IF At(v, i) > At(v, i - 1) /\ At(v, i) > At(v, i + 1)
               THEN Append(maxs, i) ELSE maxs)

\* lines 598-608
ForcScan ==
    /\ pc = "forc_call"
    /\ LET r == ScanFrom(voltage, 0, <<>>, <<>>)
       IN IF r.ok
          THEN /\ minimaIndex' = r.mins /\ maximaIndex' = r.maxs
               /\ pc' = "forc_scanned" /\ UNCHANGED err
          ELSE /\ pc' = "raised" /\ err' = "IndexError: voltage"
               /\ UNCHANGED <<minimaIndex, maximaIndex>>
    /\ UNCHANGED <<voltage, polarization, thickness, vrFORC, vFORC, pFORC,
                   eFORC, erFORC, fi, curves>>
    /\ UNCHANGED <<filmVars, preisachVars, genVars>>
    /\ UNCHANGED densVars
    /\ UNCHANGED compVars
    /\ UNCHANGED moreVars

\* lines 610-615
ForcCheck ==
    /\ pc = "forc_scanned"
    /\ IF Len(minimaIndex) < 2
       THEN pc' = "raised" /\ err' = "ValueError: could not find two minima"
       ELSE pc' = "forc_loop" /\ UNCHANGED err
    /\ UNCHANGED <<filmVars, preisachVars, genVars, forcVars>>
    /\ UNCHANGED densVars
    /\ UNCHANGED compVars
    /\ UNCHANGED moreVars

\* one iteration of the loop of lines 616-619
ForcEmit ==
    /\ pc = "forc_loop"
    /\ fi < Len(minimaIndex)
    /\ IF fi + 1 >= Len(maximaIndex)
       THEN /\ pc' = "raised" /\ err' = "IndexError: maximaIndex"
            /\ UNCHANGED <<vrFORC, vFORC, pFORC, fi, curves>>
       ELSE LET v == At(minimaIndex, fi)
                hi == At(maximaIndex, fi + 1)
            IN /\ vrFORC' = vrFORC \o Repeat(At(voltage, v - 1), hi - v)
               /\ vFORC' = vFORC \o Slice(voltage, v, hi)
               /\ pFORC' = pFORC \o Slice(polarization, v, hi)
               /\ curves' = Append(curves, [min |-> v, from |-> v, to |-> hi])
               /\ fi' = fi + 1
               /\ UNCHANGED <<pc, err>>
    /\ UNCHANGED <<voltage, polarization, thickness, minimaIndex, maximaIndex,
                   eFORC, erFORC>>
    /\ UNCHANGED <<filmVars, preisachVars, genVars>>
    /\ UNCHANGED densVars
    /\ UNCHANGED compVars
    /\ UNCHANGED moreVars

\* lines 621-622
ForcFields ==
    /\ pc = "forc_loop"
    /\ fi >= Len(minimaIndex)
    /\ eFORC' = [k \in 1..Len(vFORC) |-> RatDiv(RatOfInt(vFORC[k]), thickness)]
    /\ erFORC' = [k \in 1..Len(vrFORC) |-> RatDiv(RatOfInt(vrFORC[k]), thickness)]
    /\ pc' = "forc_extracted"
    /\ UNCHANGED <<err, voltage, polarization, thickness, minimaIndex, maximaIndex,
                   vrFORC, vFORC, pFORC, fi, curves>>
    /\ UNCHANGED <<filmVars, preisachVars, genVars>>
    /\ UNCHANGED densVars
    /\ UNCHANGED compVars
    /\ UNCHANGED moreVars

NextForc == ForcScan \/ ForcCheck \/ ForcEmit \/ ForcFields

\* voltage sequences of every length up to MaxSamples; the polarization of a
\* sample is its index, so that pFORC names the samples that were emitted
Volts == 0..2

InitForc ==
    /\ pc = "forc_call" /\ err = "none"
    /\ area = RatOfInt(2) /\ pr = 1
    /\ voltage \in SeqsUpTo(Volts, MaxSamples)
    /\ polarization = [k \in 1..Len(voltage) |-> k - 1]
    /\ thickness = RatOfInt(2)
    /\ minimaIndex = <<>> /\ maximaIndex = <<>>
    /\ vrFORC = <<>> /\ vFORC = <<>> /\ pFORC = <<>>
    /\ eFORC = <<>> /\ erFORC = <<>> /\ fi = 0 /\ curves = <<>>
    /\ PreisachIdle /\ GenIdle
    /\ DensIdle
    /\ CompIdle
    /\ MoreIdle

SpecForc == InitForc /\ [][NextForc]_vars

----------------------------------------------------------------------------
(* HysteresisData.forc_calc, smoothing and normalisation of the mixed        *)
(* partial (lines 635-640).  dEdEr is the masked array that the gridding and *)
(* the two np.gradient calls of lines 624-633 hand over.                     *)

\* np.ma.getmask, line 636: nomask when no cell is masked
GetMask(grid) ==
    IF \A r \in 1..Len(grid) : \A c \in 1..Len(grid[r]) : ~grid[r][c].mask
    THEN [nomask |-> TRUE, cells |-> <<>>]
    ELSE [nomask |-> FALSE,
          cells |-> [r \in 1..Len(grid) |-> [c \in 1..Len(grid[r]) |-> grid[r][c].mask]]]

\* scipy.ndimage mode "reflect" (d c b a | a b c d | d c b a): the index of
\* the sample that stands at the 0-based position i of an axis of length len
ReflectIndex(i, len) ==
    LET m == i % (2 * len)
    IN IF m < len THEN m ELSE 2 * len - 1 - m

\* scipy.ndimage.uniform_filter1d with origin 0: the mean of the size samples
\* from i - size // 2 on
UniformFilter1D(s, size) ==
    [i \in 1..Len(s) |->
        RatDiv(RatSum([k \in 1..size |->
                  At(s, ReflectIndex((i - 1) - (size \div 2) + (k - 1), Len(s)))]),
               RatOfInt(size))]

FilterAxis0(g, size) ==
    LET col(c) == UniformFilter1D([r \in 1..Len(g) |-> g[r][c]], size)
    IN [r \in 1..Len(g) |-> [c \in 1..Len(g[r]) |-> col(c)[r]]]

FilterAxis1(g, size) == [r \in 1..Len(g) |-> UniformFilter1D(g[r], size)]

\* flt.uniform_filter(dEdEr, filtDim), line 638: one box filter per axis
UniformFilter(g, dim) == FilterAxis1(FilterAxis0(g, dim[1]), dim[2])

\* the loop of lines 637-638
RECURSIVE FilterTimes(_, _, _)
FilterTimes(g, dim, count) ==
    IF count <= 0 THEN g ELSE FilterTimes(UniformFilter(g, dim), dim, count - 1)

\* MaskedWhere that masks nothing
MaskedWhereNothing(msk, g) ==
    [r \in 1..Len(g) |-> [c \in 1..Len(g[r]) |-> [val |-> g[r][c], mask |-> FALSE]]]

\* np.ma.masked_where(mask, dEdEr), line 639
MaskedWhere(msk, g) ==
    [r \in 1..Len(g) |-> [c \in 1..Len(g[r]) |->
        [val |-> g[r][c], mask |-> IF msk.nomask THEN FALSE ELSE msk.cells[r][c]]]]

\* abs(dEdEr) / np.sum(abs(dEdEr)), line 640, in masked arithmetic: the sum
\* runs over the cells that are not masked; a division by 0, and a division
\* by the masked sum of a grid without any unmasked cell, masks every cell
Normalize(grid) ==
    LET absval == [r \in 1..Len(grid) |-> [c \in 1..Len(grid[r]) |->
                      Rat(Abs(grid[r][c].val.num), grid[r][c].val.den)]]
        total == RatSum(Flatten([r \in 1..Len(grid) |-> [c \in 1..Len(grid[r]) |->
                      IF grid[r][c].mask THEN Zero ELSE absval[r][c]]]))
    IN [r \in 1..Len(grid) |-> [c \in 1..Len(grid[r]) |->
          IF total = Zero THEN [val |-> absval[r][c], mask |-> TRUE]
          ELSE IF grid[r][c].mask THEN [val |-> absval[r][c], mask |-> TRUE]
          ELSE [val |-> RatDiv(absval[r][c], total), mask |-> FALSE]]]

\* np.gradient(f, h) along one axis with the scalar spacing h: central
\* differences over 2h inside, one-sided differences over h at both ends
GradientH(f, h) ==
    [k \in 1..Len(f) |->
        IF k = 1 THEN RatDiv(RatSub(f[2], f[1]), h)
        ELSE IF k = Len(f) THEN RatDiv(RatSub(f[Len(f)], f[Len(f) - 1]), h)
        ELSE RatDiv(RatSub(f[k + 1], f[k - 1]), RatMul(RatOfInt(2), h))]

\* the gradient along axis 0 (down the rows, the Er axis of the grid)
GradientAxis0(g, h) ==
    [r \in 1..Len(g) |-> [c \in 1..Len(g[1]) |->
        GradientH([k \in 1..Len(g) |-> g[k][c]], h)[r]]]

\* the gradient along axis 1 (along a row, the E axis of the grid)
GradientAxis1(g, h) ==
    [r \in 1..Len(g) |-> GradientH(g[r], h)]

\* line 632: dE, dEr = np.gradient(grid, uniformVr[1] - uniformVr[0],
\*                                 uniformV[1] - uniformV[0])
ForcGradient1 ==
    /\ pc = "forc_gridded"
    /\ dE' = GradientAxis0(pGrid, RatOfInt(uniformVr[2] - uniformVr[1]))
    /\ dEr' = GradientAxis1(pGrid, RatOfInt(uniformV[2] - uniformV[1]))
    /\ pc' = "forc_partial"
    /\ UNCHANGED <<err, pGrid, uniformVr, uniformV, dEdE>>
    /\ UNCHANGED <<chainVars, calcVars, parmVars, splitVars>>
    /\ UNCHANGED <<filmVars, preisachVars, genVars, forcVars, densVars, compVars>>

\* line 633: dEdE, dEdEr = np.gradient(dE, ...) with the same two spacings
ForcGradient2 ==
    /\ pc = "forc_partial"
    /\ dEdE' = GradientAxis0(dE, RatOfInt(uniformVr[2] - uniformVr[1]))
    /\ LET mixed == GradientAxis1(dE, RatOfInt(uniformV[2] - uniformV[1]))
       IN /\ dEdEr' = [r \in 1..Len(mixed) |-> [c \in 1..Len(mixed[r]) |->
                          [val |-> mixed[r][c], mask |-> FALSE]]]
          /\ unsmoothed' = dEdEr'
    /\ pc' = "forc_gradient"
    /\ UNCHANGED <<err, pGrid, uniformVr, uniformV, dE, dEr>>
    /\ UNCHANGED <<filtIter, filtDim, mask, forcProb>>
    /\ UNCHANGED <<chainVars, calcVars, parmVars, splitVars>>
    /\ UNCHANGED <<filmVars, preisachVars, genVars, forcVars, compVars>>

\* lines 635-639
ForcSmooth ==
    /\ pc = "forc_gradient"
    /\ IF filtIter.given
       THEN /\ mask' = GetMask(dEdEr)
            /\ dEdEr' = MaskedWhere(GetMask(dEdEr),
                           FilterTimes(Filled(dEdEr), filtDim, filtIter.val))
       ELSE UNCHANGED <<mask, dEdEr>>
    /\ pc' = "forc_smoothed"
    /\ UNCHANGED <<err, filtIter, filtDim, forcProb, unsmoothed>>
    /\ UNCHANGED <<filmVars, preisachVars, genVars, forcVars>>
    /\ UNCHANGED compVars
    /\ UNCHANGED moreVars

\* line 640 and the return of line 683
ForcNormalize ==
    /\ pc = "forc_smoothed"
    /\ forcProb' = Normalize(dEdEr)
    /\ pc' = "forc_done"
    /\ UNCHANGED <<err, dEdEr, filtIter, filtDim, mask, unsmoothed>>
    /\ UNCHANGED <<filmVars, preisachVars, genVars, forcVars>>
    /\ UNCHANGED compVars
    /\ UNCHANGED moreVars

NextDensity == ForcSmooth \/ ForcNormalize

\* mixed partials: up to two cells hold a non-zero value, up to MaxMasked
\* cells are masked; the other cells are 0.  np.gradient needs two samples
\* along each axis, so a grid has at least 2 rows and 2 columns
PartialVals == {-1, 2}

MixedPartials(rows, cols) ==
    { [r \in 1..rows |-> [c \in 1..cols |->
          [val |-> IF <<r, c>> \in DOMAIN f THEN RatOfInt(f[<<r, c>>]) ELSE Zero,
           mask |-> <<r, c>> \in M]]] :
        f \in UNION {[S -> PartialVals] :
                        S \in {T \in SUBSET Cells(rows, cols) : Cardinality(T) <= 2}},
        M \in {T \in SUBSET Cells(rows, cols) : Cardinality(T) <= MaxMasked} }

FiltIters == {[given |-> FALSE, val |-> 0]} \cup {[given |-> TRUE, val |-> k] : k \in 0..2}
FiltDims == {<<1, 1>>, <<2, 1>>, <<1, 3>>, <<3, 2>>}

InitDensity ==
    /\ pc = "forc_gradient" /\ err = "none"
    /\ area = RatOfInt(2) /\ pr = 1
    /\ \E rows \in 2..MaxRows, cols \in 2..MaxCols : dEdEr \in MixedPartials(rows, cols)
    /\ unsmoothed = dEdEr
    /\ filtIter \in FiltIters
    /\ filtDim \in FiltDims
    /\ mask = [nomask |-> TRUE, cells |-> <<>>] /\ forcProb = <<>>
    /\ PreisachIdle /\ GenIdle /\ ForcIdle
    /\ CompIdle
    /\ MoreIdle

SpecDensity == InitDensity /\ [][NextDensity]_vars

\* lines 624-640 of a forc_calc call with the default filtIter and filtDim
NextPartial == ForcGradient1 \/ ForcGradient2 \/ ForcSmooth \/ ForcNormalize

\* strictly increasing axes that start at 0 and whose steps come from gaps
RECURSIVE AxisOf(_)
AxisOf(gaps) ==
    IF gaps = <<>> THEN <<0>>
    ELSE LET front == AxisOf(SubSeq(gaps, 1, Len(gaps) - 1))
         IN Append(front, front[Len(front)] + gaps[Len(gaps)])

\* gridded P without masked cells; uniformVr is the sorted, deduplicated
\* reversal voltages (any increasing sequence), uniformV a linspace
InitPartial ==
    /\ pc = "forc_gridded" /\ err = "none"
    /\ area = RatOfInt(2) /\ pr = 1
    /\ \E rows \in 2..(MaxRows + 1), cols \in 2..MaxCols :
          /\ pGrid \in [1..rows -> [1..cols -> {Zero, RatOfInt(1)}]]
          /\ \E gaps \in [1..(rows - 1) -> {1, 2}] : uniformVr = AxisOf(gaps)
          /\ \E step \in {1, 2} : uniformV = AxisOf([c \in 1..(cols - 1) |-> step])
    /\ dE = <<>> /\ dEr = <<>> /\ dEdE = <<>>
    /\ voltage = <<>> /\ polarization = <<>> /\ thickness \in {RatOfInt(1), RatOfInt(2)}
    /\ minimaIndex = <<>> /\ maximaIndex = <<>>
    /\ vrFORC = <<>> /\ vFORC = <<>> /\ pFORC = <<>>
    /\ eFORC = <<>> /\ erFORC = <<>> /\ fi = 0 /\ curves = <<>>
    /\ PreisachIdle /\ GenIdle /\ DensIdle /\ CompIdle
    /\ firstOut = <<>> /\ CalcIdle /\ ParmIdle /\ SplitIdle

SpecPartial == InitPartial /\ [][NextPartial]_vars

----------------------------------------------------------------------------
(* LeakageData.lcm_fit, HysteresisData.leakage_compensation and              *)
(* LandauFilm.cCompensation.  Arrays live in heap and samples hold their     *)
(* ids, so that a write through one sample shows in every sample that holds  *)
(* the same array.                                                           *)

MaxPts == 3          \* most points of a sample
MaxFits == 2         \* most lcm_fit calls before the compensation

RatAbs(x) == [num |-> Abs(x.num), den |-> x.den]

\* np.sign
RatSign(x) == RatOfInt(IF x.num > 0 THEN 1 ELSE IF x.num < 0 THEN -1 ELSE 0)

RECURSIVE RatPow(_, _)
RatPow(x, k) == IF k = 0 THEN RatOfInt(1) ELSE RatMul(x, RatPow(x, k - 1))

\* Mean without the division by the number of samples
MeanAsSum(s) == RatSum(s)

\* Mean that is always 0
MeanNone(s) == Zero

\* np.mean
Mean(s) == RatDiv(RatSum(s), RatOfInt(Len(s)))

\* max(...) and min(...) of a non-empty array
RatMax(s) == CHOOSE x \in {s[k] : k \in 1..Len(s)} : \A k \in 1..Len(s) : RatLeq(s[k], x)
RatMin(s) == CHOOSE x \in {s[k] : k \in 1..Len(s)} : \A k \in 1..Len(s) : RatLeq(x, s[k])

\* leakage_func(x, a, b, c, d, e, f, g), lines 25-26; q = <<a, b, c, d, e, f, g>>
LeakageFunc(x, q) ==
    LET u == RatSub(x, RatOfInt(q[7]))
        term(coef, k) == RatMul(RatOfInt(coef), RatPow(u, k))
    IN RatAdd(term(q[1], 5), RatAdd(term(q[2], 4), RatAdd(term(q[3], 3),
          RatAdd(term(q[4], 2), RatAdd(term(q[5], 1), RatOfInt(q[6]))))))

\* copy.copy in the place of copy.deepcopy: the copy holds the arrays of obj
ShallowCopy(obj, h) == [obj |-> obj, heap |-> h]

\* copy.deepcopy(self), line 367 and LandauFilm.py line 122: a new sample with
\* new arrays that hold the same values
DeepCopy(obj, h) ==
    [obj |-> [obj EXCEPT !.time = Len(h) + 1, !.voltage = Len(h) + 2,
                         !.current = Len(h) + 3, !.polarization = Len(h) + 4],
     heap |-> h \o <<h[obj.time], h[obj.voltage], h[obj.current], h[obj.polarization]>>]

\* Accumulate adding the sample before the one it stands at
AccumulateLagged(prev, cur, i, dt, a) ==
    RatAdd(prev, RatDiv(RatMul(cur[i - 1], dt), a))

\* testpol[i - 1] + current[i] * dt / area, line 379 and LandauFilm.py line
\* 141; i is the 1-based position of the sample
Accumulate(prev, cur, i, dt, a) ==
    RatAdd(prev, RatDiv(RatMul(cur[i], dt), a))

\* the loop of lines 375-379 and of LandauFilm.py lines 136-141: testpol[0]
\* stays 0
RECURSIVE IntegrateFrom(_, _, _, _)
IntegrateFrom(cur, dt, a, acc) ==
    IF Len(acc) >= Len(cur) THEN acc
    ELSE IF acc = <<>> THEN IntegrateFrom(cur, dt, a, <<Zero>>)
    ELSE IntegrateFrom(cur, dt, a,
            Append(acc, Accumulate(acc[Len(acc)], cur, Len(acc) + 1, dt, a)))

Integrate(cur, dt, a) == IntegrateFrom(cur, dt, a, <<>>)

\* lines 381-383 and LandauFilm.py lines 145-147
Centre(testpol) ==
    LET offset == RatSub(RatMax(testpol),
                         RatDiv(RatSub(RatMax(testpol), RatMin(testpol)), RatOfInt(2)))
    IN [k \in 1..Len(testpol) |-> RatSub(testpol[k], offset)]

\* FitResult storing the initial guess of a fit that did not converge
FitResultOfGuess(o, parms) == IF o.converged THEN o.popt ELSE <<0, 0, 0, 0, 0, 0, -1>>

\* self.lcmParms, pcov = curve_fit(...), lines 749-750: curve_fit raises
\* RuntimeError when it does not converge, and then nothing is assigned
FitResult(o, parms) == IF o.converged THEN o.popt ELSE parms

\* the coefficient vectors a fit may return: f = 0, f = x + 1 and
\* f = (x - 1)^5 + (x - 1)^2
Popts == {<<0, 0, 0, 0, 0, 0, 0>>, <<0, 0, 0, 0, 1, 1, 0>>, <<1, 0, 0, 1, 0, 0, 1>>}

FitOutcomes ==
    {[converged |-> FALSE, popt |-> <<>>]} \cup {[converged |-> TRUE, popt |-> q] : q \in Popts}

\* LeakageData.lcm_fit, lines 733-752; the caller goes on after the error
LcmFit ==
    /\ pc = "comp_idle" /\ caller = "leak"
    /\ Len(fitLog) < MaxFits
    /\ \E o \in FitOutcomes :
          /\ lcmParms' = FitResult(o, lcmParms)
          /\ err' = IF o.converged THEN "none"
                    ELSE "RuntimeError: Optimal parameters not found"
          /\ fitLog' = Append(fitLog, [converged |-> o.converged,
                                       raised |-> ~o.converged,
                                       before |-> lcmParms,
                                       after |-> FitResult(o, lcmParms)])
    /\ UNCHANGED <<pc, caller, heap, data, compData, ret, warned, filmC, prRet, heap0>>
    /\ UNCHANGED <<filmVars, preisachVars, genVars, forcVars, densVars>>
    /\ UNCHANGED moreVars

\* Unfit that never finds the coefficients empty
UnfitNever(parms) == FALSE

\* ld.lcmParms == [], line 362, with lcmParms the list [] of __init__
Unfit(parms) == parms = <<>>

\* ld.lcmParms == [], line 362, with lcmParms the fitted ndarray: the shapes
\* (7,) and (0,) do not broadcast; older numpy answers False with a warning,
\* newer numpy raises ValueError
ArrayEqualsEmptyList == {"false", "raise"}

\* lines 360-365
LeakCheck ==
    /\ pc = "comp_idle" /\ caller = "leak"
    /\ heap0' = heap
    /\ IF Unfit(lcmParms)
       THEN /\ warned' = TRUE /\ ret' = "self" /\ pc' = "leak_done"
            /\ err' = "none"
       ELSE \E o \in ArrayEqualsEmptyList :
               IF o = "raise"
               THEN /\ pc' = "raised" /\ err' = "ValueError: operands could not be broadcast"
                    /\ UNCHANGED <<warned, ret>>
               ELSE /\ pc' = "leak_copy" /\ err' = "none"
                    /\ UNCHANGED <<warned, ret>>
    /\ UNCHANGED <<caller, heap, data, compData, lcmParms, filmC, prRet, fitLog>>
    /\ UNCHANGED <<filmVars, preisachVars, genVars, forcVars, densVars>>
    /\ UNCHANGED moreVars

\* line 367
LeakCopy ==
    /\ pc = "leak_copy"
    /\ compData' = DeepCopy(data, heap).obj
    /\ heap' = DeepCopy(data, heap).heap
    /\ pc' = "leak_subtract"
    /\ UNCHANGED <<err, caller, data, ret, lcmParms, warned, filmC, prRet, fitLog, heap0>>
    /\ UNCHANGED <<filmVars, preisachVars, genVars, forcVars, densVars>>
    /\ UNCHANGED moreVars

\* lines 369-373: the loop writes into the array compData.current, line 373
\* binds compData.current to a new array
LeakSubtract ==
    /\ pc = "leak_subtract"
    /\ LET looped == [k \in 1..Len(heap[compData.current]) |->
                         RatSub(heap[compData.current][k],
                                LeakageFunc(heap[data.voltage][k], lcmParms))]
           centred == [k \in 1..Len(looped) |-> RatSub(looped[k], Mean(looped))]
       IN /\ heap' = Append([heap EXCEPT ![compData.current] = looped], centred)
          /\ compData' = [compData EXCEPT !.current = Len(heap) + 1]
    /\ pc' = "leak_integrate"
    /\ UNCHANGED <<err, caller, data, ret, lcmParms, warned, filmC, prRet, fitLog, heap0>>
    /\ UNCHANGED <<filmVars, preisachVars, genVars, forcVars, densVars>>
    /\ UNCHANGED moreVars

\* lines 375-387
LeakIntegrate ==
    /\ pc = "leak_integrate"
    /\ LET testpol == Integrate(heap[compData.current], data.dt, data.area)
       IN /\ heap' = Append(heap, Centre(testpol))
          /\ compData' = [compData EXCEPT !.polarization = Len(heap) + 1]
    /\ ret' = "copy"
    /\ pc' = "leak_done"
    /\ UNCHANGED <<err, caller, data, lcmParms, warned, filmC, prRet, fitLog, heap0>>
    /\ UNCHANGED <<filmVars, preisachVars, genVars, forcVars, densVars>>
    /\ UNCHANGED moreVars

\* np.mean(np.abs(np.diff(data.voltage) / data.dt)) times self.c,
\* LandauFilm.py lines 124-126
ICap(v, dt, c) ==
    RatMul(c, Mean([k \in 1..(Len(v) - 1) |->
                       RatAbs(RatDiv(RatSub(v[k + 1], v[k]), dt))]))

\* Threshold subtracting icap whatever the sign of the current
ThresholdNoSign(i, icap) ==
    IF RatLeq(icap, RatAbs(i)) THEN RatSub(i, icap) ELSE Zero

\* LandauFilm.py lines 129-132
Threshold(i, icap) ==
    IF RatLeq(icap, RatAbs(i)) THEN RatSub(i, RatMul(RatSign(i), icap)) ELSE Zero

\* PrOf without the halving
PrOfSpan(testpol) == RatSub(RatMax(testpol), RatMin(testpol))

\* pr = (max(testpol) - min(testpol)) / 2, LandauFilm.py line 143
PrOf(testpol) == RatDiv(RatSub(RatMax(testpol), RatMin(testpol)), RatOfInt(2))

\* LandauFilm.py line 122
CapCopy ==
    /\ pc = "comp_idle" /\ caller = "cap"
    /\ heap0' = heap
    /\ compData' = DeepCopy(data, heap).obj
    /\ heap' = DeepCopy(data, heap).heap
    /\ pc' = "cap_threshold"
    /\ UNCHANGED <<err, caller, data, ret, lcmParms, warned, filmC, prRet, fitLog>>
    /\ UNCHANGED <<filmVars, preisachVars, genVars, forcVars, densVars>>
    /\ UNCHANGED moreVars

\* LandauFilm.py lines 124-132: the loop reads data.current and writes into
\* the array compData.current
CapThreshold ==
    /\ pc = "cap_threshold"
    /\ LET icap == ICap(heap[data.voltage], data.dt, filmC)
       IN heap' = [heap EXCEPT ![compData.current] =
                      [k \in 1..Len(heap[data.current]) |->
                          Threshold(heap[data.current][k], icap)]]
    /\ pc' = "cap_integrate"
    /\ UNCHANGED <<err, caller, data, compData, ret, lcmParms, warned, filmC, prRet,
                   fitLog, heap0>>
    /\ UNCHANGED <<filmVars, preisachVars, genVars, forcVars, densVars>>
    /\ UNCHANGED moreVars

\* LandauFilm.py lines 136-153
CapIntegrate ==
    /\ pc = "cap_integrate"
    /\ LET testpol == Integrate(heap[compData.current], compData.dt, compData.area)
       IN /\ prRet' = PrOf(testpol)
          /\ heap' = Append(heap, Centre(testpol))
          /\ compData' = [compData EXCEPT !.polarization = Len(heap) + 1]
    /\ ret' = "copy"
    /\ pc' = "cap_done"
    /\ UNCHANGED <<err, caller, data, lcmParms, warned, filmC, fitLog, heap0>>
    /\ UNCHANGED <<filmVars, preisachVars, genVars, forcVars, densVars>>
    /\ UNCHANGED moreVars

NextComp ==
    \/ LeakCheck \/ LeakCopy \/ LeakSubtract \/ LeakIntegrate
    \/ CapCopy \/ CapThreshold \/ CapIntegrate

NextFit == LcmFit \/ LeakCheck \/ LeakCopy \/ LeakSubtract \/ LeakIntegrate

\* samples as tsv_read leaves them: four arrays of one length >= 2, time in
\* steps of dt = time[1] - time[0]; a LeakageData as __init__ or an earlier
\* lcm_fit left it; a film with a capacitance c >= 0
SampleDt == Rat(1, 2)
SampleArea == RatOfInt(2)
Currents == {RatOfInt(-2), Zero, RatOfInt(1)}
Voltages == {RatOfInt(-1), Zero, RatOfInt(1)}
Capacitances == {Zero, Rat(1, 2), RatOfInt(1), RatOfInt(3)}

SampleArrays(maxlen) ==
    { << [k \in 1..Len(v) |-> RatMul(RatOfInt(k - 1), SampleDt)],
         v, i, [k \in 1..Len(v) |-> RatOfInt(k)] >> :
        v \in {w \in SeqsUpTo(Voltages, maxlen) : Len(w) >= 2},
        i \in {w \in SeqsUpTo(Currents, maxlen) : Len(w) >= 2} }

InitComp ==
    /\ pc = "comp_idle" /\ err = "none"
    /\ area = RatOfInt(2) /\ pr = 1
    /\ caller \in {"leak", "cap"}
    /\ heap \in {h \in SampleArrays(MaxPts) : Len(h[2]) = Len(h[3])}
    /\ data = [time |-> 1, voltage |-> 2, current |-> 3, polarization |-> 4,
               dt |-> SampleDt, area |-> SampleArea]
    /\ compData = NoSample /\ ret = "none"
    /\ lcmParms \in (IF caller = "leak" THEN {<<>>} \cup Popts ELSE {<<>>})
    /\ warned = FALSE
    /\ filmC \in (IF caller = "cap" THEN Capacitances ELSE {Zero})
    /\ prRet = Zero /\ fitLog = <<>> /\ heap0 = <<>>
    /\ PreisachIdle /\ GenIdle /\ ForcIdle /\ DensIdle
    /\ MoreIdle

SpecComp == InitComp /\ [][NextComp]_vars

\* the script of lcmTest.py: a new LeakageData, lcm_fit (again after a
\* failure), then leakage_compensation of a two-point sample
InitFit ==
    /\ pc = "comp_idle" /\ err = "none"
    /\ area = RatOfInt(2) /\ pr = 1
    /\ caller = "leak"
    /\ heap \in {h \in SampleArrays(2) : Len(h[2]) = Len(h[3])}
    /\ data = [time |-> 1, voltage |-> 2, current |-> 3, polarization |-> 4,
               dt |-> SampleDt, area |-> SampleArea]
    /\ compData = NoSample /\ ret = "none"
    /\ lcmParms = <<>> /\ warned = FALSE /\ filmC = Zero
    /\ prRet = Zero /\ fitLog = <<>> /\ heap0 = <<>>
    /\ PreisachIdle /\ GenIdle /\ ForcIdle /\ DensIdle
    /\ MoreIdle

SpecFit == InitFit /\ [][NextFit]_vars

\* the caller of lcmTest.py going on: the sample that leakage_compensation
\* returned is compensated again, with a LeakageData whose fit is f = 0
LeakAgain ==
    /\ pc = "leak_done" /\ ret = "copy" /\ firstOut = <<>>
    /\ firstOut' = <<heap[compData.current], heap[compData.polarization]>>
    /\ data' = compData
    /\ compData' = NoSample
    /\ ret' = "none"
    /\ lcmParms' = <<0, 0, 0, 0, 0, 0, 0>>
    /\ pc' = "comp_idle"
    /\ UNCHANGED <<err, caller, heap, warned, filmC, prRet, fitLog, heap0>>
    /\ UNCHANGED <<calcVars, parmVars, splitVars, gradVars>>
    /\ UNCHANGED <<filmVars, preisachVars, genVars, forcVars, densVars>>

NextTwice == LeakCheck \/ LeakCopy \/ LeakSubtract \/ LeakIntegrate \/ LeakAgain

InitTwice ==
    /\ pc = "comp_idle" /\ err = "none"
    /\ area = RatOfInt(2) /\ pr = 1
    /\ caller = "leak"
    /\ heap \in {h \in SampleArrays(MaxPts) : Len(h[2]) = Len(h[3])}
    /\ data = [time |-> 1, voltage |-> 2, current |-> 3, polarization |-> 4,
               dt |-> SampleDt, area |-> SampleArea]
    /\ compData = NoSample /\ ret = "none"
    /\ lcmParms \in Popts
    /\ warned = FALSE /\ filmC = Zero
    /\ prRet = Zero /\ fitLog = <<>> /\ heap0 = <<>>
    /\ MoreIdle
    /\ PreisachIdle /\ GenIdle /\ ForcIdle /\ DensIdle

SpecTwice == InitTwice /\ [][NextTwice]_vars

----------------------------------------------------------------------------
(* LandauFilm.cCalc *)

MaxFiles == 3        \* most files handed to cCalc

\* np.mean(np.abs(np.diff(d.voltage)/d.dt)), line 73
MeanAbsSlope(v, dt) ==
    Mean([k \in 1..(Len(v) - 1) |-> RatAbs(RatDiv(RatSub(v[k + 1], v[k]), dt))])

\* the sequence s in ascending order
RECURSIVE Sorted(_)
Sorted(s) ==
    IF s = <<>> THEN <<>>
    ELSE LET k == CHOOSE m \in 1..Len(s) : \A m2 \in 1..Len(s) : RatLeq(s[m], s[m2])
         IN <<s[k]>> \o Sorted([m \in 1..(Len(s) - 1) |-> IF m < k THEN s[m] ELSE s[m + 1]])

\* np.median: the middle of the sorted values, the mean of the two middle
\* ones for an even count
Median(s) ==
    LET o == Sorted(s)
        half == Len(s) \div 2
    IN IF Len(s) % 2 = 1 THEN o[half + 1]
       ELSE RatDiv(RatAdd(o[half], o[half + 1]), RatOfInt(2))

RECURSIVE RatDot(_, _)
RatDot(x, y) ==
    IF x = <<>> THEN Zero ELSE RatAdd(RatMul(Head(x), Head(y)), RatDot(Tail(x), Tail(y)))

\* n * sum(x^2) - sum(x)^2: 0 exactly when all x are equal (one x included)
Spread(x) ==
    RatSub(RatMul(RatOfInt(Len(x)), RatDot(x, x)), RatMul(RatSum(x), RatSum(x)))

\* np.polyfit(dvdt, medI, 1)[0], line 87, for non-empty x.  With distinct x
\* it is the least-squares slope.  With all x equal (to x0 > 0) the system is
\* rank deficient: numpy issues a RankWarning and returns the minimum-norm
\* solution of the column-scaled system, slope mean(y) / (2 x0); nothing is
\* raised.
PolyfitSlope(x, y) ==
    IF Spread(x) = Zero
    THEN RatDiv(Mean(y), RatMul(RatOfInt(2), x[1]))
    ELSE RatDiv(RatSub(RatMul(RatOfInt(Len(x)), RatDot(x, y)),
                       RatMul(RatSum(x), RatSum(y))),
                Spread(x))

\* data.tsvRead(f), line 62: hd is whatever module "import HysteresisData"
\* finds.  The HysteresisData class of this repository names the method
\* tsv_read, so the call raises AttributeError; with the older class that
\* still has tsvRead the file is read.
TsvReadLookup == {"AttributeError", "read"}

\* lines 58-63
CalcRead ==
    /\ pc = "calc_call"
    /\ IF files = <<>>
       THEN pc' = "calc_reduce" /\ UNCHANGED err
       ELSE \E o \in TsvReadLookup :
               IF o = "AttributeError"
               THEN pc' = "raised" /\ err' = "AttributeError: tsvRead"
               ELSE pc' = "calc_reduce" /\ UNCHANGED err
    /\ UNCHANGED <<calcVars, chainVars, parmVars, splitVars, gradVars>>
    /\ UNCHANGED <<filmVars, preisachVars, genVars, forcVars, densVars, compVars>>

\* lines 65-74
CalcReduce ==
    /\ pc = "calc_reduce"
    /\ dvdt' = [k \in 1..Len(files) |-> MeanAbsSlope(files[k].voltage, files[k].dt)]
    /\ medI' = [k \in 1..Len(files) |->
                   Median([m \in 1..Len(files[k].current) |-> RatAbs(files[k].current[m])])]
    /\ pc' = "calc_fit"
    /\ UNCHANGED <<err, files, capRet, chainVars, parmVars, splitVars, gradVars>>
    /\ UNCHANGED <<filmVars, preisachVars, genVars, forcVars, densVars, compVars>>

\* lines 87-101; np.polyfit raises TypeError on empty vectors
CalcFit ==
    /\ pc = "calc_fit"
    /\ IF dvdt = <<>>
       THEN /\ pc' = "raised" /\ err' = "TypeError: expected non-empty vector for x"
            /\ UNCHANGED capRet
       ELSE /\ capRet' = [given |-> TRUE, val |-> PolyfitSlope(dvdt, medI)]
            /\ pc' = "calc_done" /\ UNCHANGED err
    /\ UNCHANGED <<files, dvdt, medI, chainVars, parmVars, splitVars, gradVars>>
    /\ UNCHANGED <<filmVars, preisachVars, genVars, forcVars, densVars, compVars>>

NextCalc == CalcRead \/ CalcReduce \/ CalcFit

\* the samples of the files: voltage, current and dt as tsv_read leaves them
FilePool ==
    { [voltage |-> <<Zero, RatOfInt(1), Zero>>, dt |-> Rat(1, 2),
       current |-> <<RatOfInt(1), RatOfInt(-2), RatOfInt(1)>>],
      [voltage |-> <<Zero, RatOfInt(2), Zero>>, dt |-> Rat(1, 2),
       current |-> <<RatOfInt(2), RatOfInt(-2), RatOfInt(3)>>],
      [voltage |-> <<Zero, RatOfInt(1), Zero>>, dt |-> RatOfInt(1),
       current |-> <<Zero, RatOfInt(1), RatOfInt(-1)>>],
      [voltage |-> <<Zero, RatOfInt(1)>>, dt |-> Rat(1, 2),
       current |-> <<RatOfInt(3), RatOfInt(-1)>>] }

InitCalc ==
    /\ pc = "calc_call" /\ err = "none"
    /\ area = RatOfInt(2) /\ pr = 1
    /\ files \in SeqsUpTo(FilePool, MaxFiles)
    /\ dvdt = <<>> /\ medI = <<>> /\ capRet = [given |-> FALSE, val |-> Zero]
    /\ firstOut = <<>> /\ ParmIdle /\ SplitIdle /\ GradIdle
    /\ PreisachIdle /\ GenIdle /\ ForcIdle /\ DensIdle /\ CompIdle

SpecCalc == InitCalc /\ [][NextCalc]_vars

----------------------------------------------------------------------------
(* LandauDomain.parmCalc *)

\* what scipy.optimize.minimize(self.eqns1, ..., method = 'COBYLA') hands
\* back: an OptimizeResult with the flag success and the point x, whatever
\* the flag is.  COBYLA of the scipy releases of the code's time ignores
\* bounds (with a warning), so x is not held to the signs of the bounds.
\* eqns1 returns a tuple of three values, not a scalar: releases that check
\* the objective's value raise, older ones go on.
CoefVals == {-1, 0, 1}

MinimizeOutcomes ==
    {[raised |-> TRUE, success |-> FALSE, x |-> <<0, 0, 0>>]} \cup
    {[raised |-> FALSE, success |-> ok, x |-> <<a, b, g>>] :
        ok \in BOOLEAN, a \in CoefVals, b \in CoefVals, g \in CoefVals}

\* lines 604-613; eqns1 divides by self.c * self.t, which is 0 for the
\* default film (c = 0)
ParmSolve ==
    /\ pc = "parm_call"
    /\ IF domC = Zero
       THEN /\ pc' = "raised" /\ err' = "ZeroDivisionError: float division by zero"
            /\ UNCHANGED solve
       ELSE \E o \in MinimizeOutcomes :
               IF o.raised
               THEN /\ pc' = "raised" /\ err' = "ValueError: objective must return a scalar"
                    /\ UNCHANGED solve
               ELSE /\ solve' = [called |-> TRUE, success |-> o.success, x |-> o.x]
                    /\ pc' = "parm_solved" /\ UNCHANGED err
    /\ UNCHANGED <<dom, domC, chainVars, calcVars, splitVars, gradVars>>
    /\ UNCHANGED <<filmVars, preisachVars, genVars, forcVars, densVars, compVars>>

\* line 623: self.a, self.b, self.g = parms.x
ParmStore ==
    /\ pc = "parm_solved"
    /\ dom' = [dom EXCEPT !.a = solve.x[1], !.b = solve.x[2], !.g = solve.x[3]]
    /\ pc' = "parm_done"
    /\ UNCHANGED <<err, domC, solve, chainVars, calcVars, splitVars, gradVars>>
    /\ UNCHANGED <<filmVars, preisachVars, genVars, forcVars, densVars, compVars>>

NextParm == ParmSolve \/ ParmStore

InitParm ==
    /\ pc = "parm_call" /\ err = "none"
    /\ area = RatOfInt(2) /\ pr = 1
    /\ dom \in DomainPool
    /\ domC \in {Zero, RatOfInt(1)}
    /\ solve = NotSolved
    /\ firstOut = <<>> /\ CalcIdle /\ SplitIdle /\ GradIdle
    /\ PreisachIdle /\ GenIdle /\ ForcIdle /\ DensIdle /\ CompIdle

SpecParm == InitParm /\ [][NextParm]_vars

----------------------------------------------------------------------------
(* Properties of calcEfePreisach *)

Running == pc \in {"preisach_loop", "preisach_done"}

\* the state vector the sweep starts from
StartState ==
    IF initState.given THEN initState.val ELSE [k \in 1..Len(domains) |-> -1]

\* the state vector before sweep step k
Before(k) == IF k = 1 THEN StartState ELSE after[k - 1]

UpThreshold(d) == RatAdd(d.ec, d.ebias)
DownThreshold(d) == RatSub(d.ebias, d.ec)

\* C1: at every sweep step j and for every domain i, a positive direction with
\* esweep[j] >= ec+ebias sets the state to +1, a negative direction with
\* esweep[j] <= -ec+ebias sets it to -1, and in every other case (direction
\* zero included) the state after the step is the state before it.
C1_SwitchingRule ==
    [][ (pc = "preisach_loop" /\ j' = j + 1) =>
          \A i \in 1..Len(domains) :
             LET f == RatOfInt(esweep[j])
                 up == sweepDir[j].num > 0 /\ RatLeq(UpThreshold(domains[i]), f)
                 down == sweepDir[j].num < 0 /\ RatLeq(f, DownThreshold(domains[i]))
             IN /\ up => state'[i] = 1
                /\ down => state'[i] = -1
                /\ (~up /\ ~down) => state'[i] = state[i] ]_vars

\* a domain switched up at one step, one switched down at one step, and a step
\* of direction zero with the field beyond a threshold left a domain alone
C1_Witness ==
    /\ pc = "preisach_done"
    /\ \E k \in 1..Len(after), i \in 1..Len(domains) :
          Before(k)[i] = -1 /\ after[k][i] = 1
    /\ \E k \in 1..Len(after), i \in 1..Len(domains) :
          Before(k)[i] = 1 /\ after[k][i] = -1
    /\ \E k \in 1..Len(after), i \in 1..Len(domains) :
          /\ sweepDir[k].num = 0
          /\ RatLeq(UpThreshold(domains[i]), RatOfInt(esweep[k]))
          /\ Before(k)[i] = -1 /\ after[k][i] = -1

\* C2: with one domain (ec = 1, ebias = 0, pr = 1) starting at -1 and a sweep
\* from -2 up to +2 and back to -2, the output is -1 before the first upsweep
\* step with field >= +1, +1 from that step until the step before the first
\* downsweep step with field <= -1, and -1 from there on: two transitions.
C2_SquareLoop ==
    pc = "preisach_done" =>
       \E u \in 1..Len(esweep) : \E d \in (u + 1)..Len(esweep) :
          /\ sweepDir[u].num > 0 /\ esweep[u] >= 1
          /\ \A k \in 1..(u - 1) : ~(sweepDir[k].num > 0 /\ esweep[k] >= 1)
          /\ sweepDir[d].num < 0 /\ esweep[d] <= -1
          /\ \A k \in (u + 1)..(d - 1) : ~(sweepDir[k].num < 0 /\ esweep[k] <= -1)
          /\ \A k \in 1..Len(p) :
                p[k] = IF k >= u /\ k < d THEN RatOfInt(1) ELSE RatOfInt(-1)

\* no field sample of the sweep reaches either threshold of domain i
NeverReached(i) ==
    \A k \in 1..Len(esweep) :
       /\ ~RatLeq(UpThreshold(domains[i]), RatOfInt(esweep[k]))
       /\ ~RatLeq(RatOfInt(esweep[k]), DownThreshold(domains[i]))

\* C3: a domain whose thresholds no step of the sweep reaches (no field
\* >= ec+ebias, no field <= -ec+ebias) keeps its initial state at every step
\* and at the end of the sweep.
C3_MinorLoopKeepsState ==
    Running =>
       \A i \in 1..Len(domains) :
          NeverReached(i) =>
             /\ state[i] = StartState[i]
             /\ \A k \in 1..Len(after) : after[k][i] = StartState[i]

\* a finished sweep that rises and falls below the thresholds of a domain,
\* for a domain starting at +1 and for one starting at -1
C3_Witness ==
    /\ pc = "preisach_done"
    /\ \E k \in 1..Len(esweep) : sweepDir[k].num > 0
    /\ \E k \in 1..Len(esweep) : sweepDir[k].num < 0
    /\ \E i \in 1..Len(domains) : NeverReached(i) /\ StartState[i] = 1
    /\ \E i \in 1..Len(domains) : NeverReached(i) /\ StartState[i] = -1

RECURSIVE ChargeSum(_, _, _)
ChargeSum(doms, st, i) ==
    IF i = 0 THEN Zero
    ELSE RatAdd(ChargeSum(doms, st, i - 1),
                Rat(doms[i].pr * st[i] * doms[i].area.num, doms[i].area.den))

\* C4: at every sweep step k the returned p[k] is the sum over the domains of
\* pr * area * state divided by the film area, with the states as they are
\* after the switching rule of step k has been applied.
C4_OutputIsChargeSum ==
    pc = "preisach_done" =>
       /\ Len(p) = Len(esweep)
       /\ \A k \in 1..Len(p) :
             p[k] = RatDiv(ChargeSum(domains, after[k], Len(domains)), area)

\* a finished sweep over two domains in which a domain switched
C4_Witness ==
    /\ pc = "preisach_done"
    /\ Len(domains) = 2
    /\ \E k \in 1..Len(after), i \in 1..Len(domains) : Before(k)[i] # after[k][i]

\* C5: without an initial state every domain starts at -1; with a supplied
\* vector (one entry per domain, any number of domains) the sweep starts from
\* exactly that vector, and the call does not fail on it.
C5_InitialState ==
    /\ err # "ValueError: ambiguous truth value"
    /\ pc = "preisach_gradient" =>
          /\ Len(state) = Len(domains)
          /\ ~initState.given => \A i \in 1..Len(state) : state[i] = -1
          /\ initState.given => state = initState.val


\* C24: in every state of a calcEfePreisach run from the default or a
\* +1/-1-valued initial state, every entry of the state vector is +1 or -1.
C24_StateIsBinary ==
    pc \in {"preisach_gradient", "preisach_loop", "preisach_done"} =>
       /\ \A i \in 1..Len(state) : state[i] \in {-1, 1}
       /\ \A k \in 1..Len(after) : \A i \in 1..Len(after[k]) : after[k][i] \in {-1, 1}

\* a finished sweep with a step of direction zero that left two domains in
\* different states
C24_Witness ==
    /\ pc = "preisach_done"
    /\ Len(domains) = 2 /\ state[1] # state[2]
    /\ \E k \in 1..Len(esweep) : sweepDir[k] = Zero
    /\ \E k \in 1..Len(after), i \in 1..Len(domains) : Before(k)[i] # after[k][i]

\* the array the caller passed as initState, as the caller sees it
CallerInitState == IF stateIs = "initState" THEN state ELSE initState.val

\* C26: calcEfePreisach changes nothing but the state vector: the domains and
\* the sweep stay as they are, and a supplied initState array is the array
\* that is updated in place and returned.
C26_OnlyStateChanges ==
    /\ [][domains' = domains /\ esweep' = esweep]_vars
    /\ [](pc \in {"preisach_gradient", "preisach_loop", "preisach_done"} =>
             /\ initState.given => stateIs = "initState" /\ CallerInitState = state
             /\ ~initState.given => stateIs = "fresh")

\* a finished sweep that switched a domain of a supplied initState array
C26_Witness ==
    /\ pc = "preisach_done" /\ initState.given
    /\ stateIs = "initState" /\ state # initState.val

\* calcEfePreisach(sweep, doms) from the default state in one call: the state
\* and the output after the steps k..Len(sweep)
RECURSIVE RunFrom(_, _, _, _, _)
RunFrom(sweep, doms, st, out, k) ==
    IF k > Len(sweep) THEN [state |-> st, p |-> out]
    ELSE LET r == DomainLoop(Gradient(sweep)[k], sweep[k], doms, st, Zero, 1)
         IN RunFrom(sweep, doms, r.state, Append(out, RatDiv(r.acc, area)), k + 1)

SingleRun == RunFrom(whole, domains, [i \in 1..Len(domains) |-> -1], <<>>, 1)

\* C25: a sweep run in two parts, the second part started from the state the
\* first part returned, ends in the same state vector and gives the same
\* output, step for step, as one run over the whole sweep.
C25_SplitSweepEqualsWhole ==
    (pc = "preisach_done" /\ runNo = 2) =>
       /\ state = SingleRun.state
       /\ firstP \o p = SingleRun.p

\* the largest up-switching and the smallest down-switching threshold
UpThresholds == {RatAdd(domains[i].ec, domains[i].ebias) : i \in 1..Len(domains)}
DownThresholds == {RatAdd(RatNeg(domains[i].ec), domains[i].ebias) : i \in 1..Len(domains)}

SaturatesUp(k) ==
    /\ sweepDir[k].num > 0
    /\ \A t \in UpThresholds : RatLeq(t, RatOfInt(esweep[k]))

SaturatesDown(k) ==
    /\ sweepDir[k].num < 0
    /\ \A t \in DownThresholds : RatLeq(RatOfInt(esweep[k]), t)

----------------------------------------------------------------------------
(* Properties of domainGen *)

NCols == Len(prob[1])

\* C6: every domain made from a drawn flat index jj has ec = (E - Er)/2 and
\* ebias = (E + Er)/2 with E = e[jj mod n_cols] and Er = er[jj div n_cols],
\* n_cols the number of columns of the grid, and that (row, column) is the
\* cell at position jj of the row-major flattening of the grid.
C6_DomainFromGridCell ==
    \A k \in 1..Len(domainList) :
       LET jj == drawn[k]
           col == (jj % NCols) + 1
           row == (jj \div NCols) + 1
       IN /\ row \in 1..Len(er) /\ col \in 1..Len(e)
          /\ 2 * domainList[k].ec.num = (e[col] - er[row]) * domainList[k].ec.den
          /\ 2 * domainList[k].ebias.num = (e[col] + er[row]) * domainList[k].ebias.den
          /\ probf[jj + 1] = (IF prob[row][col].mask THEN Zero ELSE prob[row][col].val)
          /\ domainParms[k] = <<RatOfInt(e[col]), RatOfInt(er[row]),
                                domainList[k].ec, domainList[k].ebias>>

\* a domain drawn from a cell that is not the first one, in a grid whose
\* numbers of rows and columns differ
C6_Witness ==
    /\ pc = "gen_done"
    /\ Len(prob) # NCols
    /\ \E k \in 1..Len(domainList) : drawn[k] >= 1

\* the cells that are not masked and hold a non-zero probability
Support ==
    {rc \in Cells(Len(prob), NCols) :
        ~prob[rc[1]][rc[2]].mask /\ prob[rc[1]][rc[2]].val # Zero}

\* C7: domainGen only draws cells that are not masked and whose probability
\* is non-zero; with exactly one such cell, every generated domain has the
\* (ec, ebias) of that cell's (E, Er).
C7_DrawsOnlySupport ==
    /\ \A k \in 1..Len(drawn) :
          <<(drawn[k] \div NCols) + 1, (drawn[k] % NCols) + 1>> \in Support
    /\ \A rc \in Support :
          Support = {rc} =>
             \A k \in 1..Len(domainList) :
                /\ domainList[k].ec = Rat(e[rc[2]] - er[rc[1]], 2)
                /\ domainList[k].ebias = Rat(e[rc[2]] + er[rc[1]], 2)

\* two domains drawn from a grid with one non-zero cell and, next to it, a
\* masked cell that holds non-zero data
C7_Witness ==
    /\ pc = "gen_done"
    /\ Len(domainList) >= 2
    /\ Cardinality(Support) = 1
    /\ \E rc \in Cells(Len(prob), NCols) :
          prob[rc[1]][rc[2]].mask /\ prob[rc[1]][rc[2]].val # Zero

\* C8: domainGen called with n returns exactly n domains, each with
\* area = film area / n (so that for n >= 1 the areas add up to the film
\* area) and with the film's pr.
C8_CountAreaPr ==
    pc = "gen_done" =>
       /\ Len(domainList) = n
       /\ \A k \in 1..Len(domainList) :
             /\ domainList[k].area.num * n * area.den = area.num * domainList[k].area.den
             /\ domainList[k].pr = pr
       /\ n >= 1 => RatSum([k \in 1..Len(domainList) |-> domainList[k].area]) = area

\* a finished call that made two domains
C8_Witness ==
    pc = "gen_done" /\ n = 2 /\ Len(domainList) = 2

----------------------------------------------------------------------------
(* Properties of forc_calc *)

\* the samples strictly below both neighbours (0-based indices)
LocalMinima ==
    {i \in 1..(Len(voltage) - 2) :
        At(voltage, i) < At(voltage, i - 1) /\ At(voltage, i) < At(voltage, i + 1)}

\* C9: with fewer than 2 local minima in the voltage sequence forc_calc fails
\* with the ValueError of line 611 and gets no further.
C9_TooFewMinimaIsValueError ==
    Cardinality(LocalMinima) < 2 =>
       \/ pc \in {"forc_call", "forc_scanned"}
       \/ pc = "raised" /\ err = "ValueError: could not find two minima"

\* the first detected maximum behind index v, Len(voltage) if there is none
NextMaximum(v) ==
    LET later == {m \in 1..Len(maximaIndex) : maximaIndex[m] > v}
    IN IF later = {} THEN Len(voltage)
       ELSE maximaIndex[CHOOSE m \in later : \A m2 \in later : m <= m2]

\* C10: every detected minimum gets exactly one reversal curve, running from
\* the minimum up to the first local maximum that follows it, so that no
\* sample belongs to two reversal curves.
C10_CurveEndsAtNextMaximum ==
    pc = "forc_extracted" =>
       /\ Len(curves) = Len(minimaIndex)
       /\ \A k \in 1..Len(curves) :
             /\ curves[k].from = minimaIndex[k]
             /\ curves[k].to = NextMaximum(minimaIndex[k])
       /\ \A k1, k2 \in 1..Len(curves) :
             k1 < k2 => curves[k1].to <= curves[k2].from

\* number of samples of the k-th emitted curve, and where it starts in erFORC
CurveLen(k) == IF curves[k].to > curves[k].from THEN curves[k].to - curves[k].from ELSE 0

RECURSIVE CurveStart(_)
CurveStart(k) == IF k = 1 THEN 0 ELSE CurveStart(k - 1) + CurveLen(k - 1)

\* C11: within each emitted reversal curve the reversal field Er is the same
\* for every sample, and it is the field voltage / thickness of the minimum
\* sample that starts the curve.
C11_ReversalFieldIsMinimumField ==
    pc = "forc_extracted" =>
       \A k \in 1..Len(curves) :
          \A s \in 1..CurveLen(k) :
             erFORC[CurveStart(k) + s] =
                RatDiv(RatOfInt(At(voltage, curves[k].min)), thickness)

\* C27: with at least 2 local minima in the voltage sequence the extraction
\* does not fail on an index: every detected minimum finds the maximum that
\* ends its span, and E, Er and P come out with the same length.
C27_ExtractionHasNoIndexError ==
    Cardinality(LocalMinima) >= 2 =>
       /\ ~(pc = "raised" /\ err = "IndexError: maximaIndex")
       /\ pc = "forc_extracted" =>
             /\ Len(maximaIndex) > Len(minimaIndex)
             /\ Len(eFORC) = Len(erFORC) /\ Len(erFORC) = Len(pFORC)

\* C29: every emitted (E, Er, P) triple has E >= Er, the field of a sample
\* is never below the reversal field of its curve.
C29_FieldNotBelowReversalField ==
    pc = "forc_extracted" =>
       \A k \in 1..Len(eFORC) : RatLeq(erFORC[k], eFORC[k])

----------------------------------------------------------------------------
(* Properties of the FORC density *)

Unmasked(grid) ==
    {rc \in Cells(Len(grid), Len(grid[1])) : ~grid[rc[1]][rc[2]].mask}

\* C12: every returned density grid has non-masked entries >= 0 that sum
\* to 1, with and without smoothing, whatever the mixed partial is.
C12_DensityIsDistribution ==
    pc = "forc_done" =>
       /\ \A rc \in Unmasked(forcProb) : forcProb[rc[1]][rc[2]].val.num >= 0
       /\ RatSum(Flatten(Filled(forcProb))) = RatOfInt(1)

\* C13: smoothing leaves the mask alone: the masked cells of the mixed partial
\* after smoothing are the masked cells before it.
C13_SmoothingKeepsMask ==
    (pc \in {"forc_smoothed", "forc_done"} /\ filtIter.given) =>
       /\ Len(dEdEr) = Len(unsmoothed)
       /\ \A r \in 1..Len(dEdEr) : Len(dEdEr[r]) = Len(unsmoothed[r])
       /\ Unmasked(dEdEr) = Unmasked(unsmoothed)

\* two rounds of a 3 x 2 box filter over a grid with a masked cell next to
\* non-zero cells: the filter has changed the data
C13_Witness ==
    /\ pc = "forc_smoothed" /\ filtIter.given /\ filtIter.val = 2
    /\ filtDim = <<3, 2>>
    /\ Unmasked(unsmoothed) # Cells(Len(unsmoothed), Len(unsmoothed[1]))
    /\ Filled(dEdEr) # Filled(unsmoothed)

\* the coordinates of the grid: fields, voltage / thickness
ErAxis == [k \in 1..Len(uniformVr) |-> RatDiv(RatOfInt(uniformVr[k]), thickness)]
EAxis == [c \in 1..Len(uniformV) |-> RatDiv(RatOfInt(uniformV[c]), thickness)]

\* C30: the mixed partial is the E-derivative of the Er-derivative of the
\* gridded P, by central differences over the actual distance of the two
\* neighbouring coordinates: at an interior row k the Er-derivative divides by
\* Er[k+1] - Er[k-1], at an interior column c the E-derivative by
\* E[c+1] - E[c-1].
C30_CentralDifferencesUseGridSpacing ==
    pc = "forc_gradient" =>
       /\ \A k \in 2..(Len(pGrid) - 1) : \A c \in 1..Len(pGrid[1]) :
             dE[k][c] = RatDiv(RatSub(pGrid[k + 1][c], pGrid[k - 1][c]),
                               RatSub(ErAxis[k + 1], ErAxis[k - 1]))
       /\ \A k \in 1..Len(pGrid) : \A c \in 2..(Len(pGrid[1]) - 1) :
             unsmoothed[k][c].val = RatDiv(RatSub(dE[k][c + 1], dE[k][c - 1]),
                                           RatSub(EAxis[c + 1], EAxis[c - 1]))

----------------------------------------------------------------------------
(* Properties of leakage_compensation, cCompensation and lcm_fit *)

SampleFields == {"time", "voltage", "current", "polarization"}

\* the input sample holds the arrays, with the values, it held at the call
InputUntouched ==
    /\ data.time = 1 /\ data.voltage = 2 /\ data.current = 3 /\ data.polarization = 4
    /\ \A id \in 1..4 : heap[id] = heap0[id]

\* the compensation has returned a compensated copy
Compensated == pc \in {"leak_done", "cap_done"} /\ ret = "copy"

\* C14: leakage_compensation with a leakage model that was never fit does not
\* raise; it warns and returns the input sample itself, its arrays unchanged.
C14_UnfitIsWarningNoOp ==
    (caller = "leak" /\ pc # "comp_idle" /\ lcmParms = <<>>) =>
       /\ pc = "leak_done" /\ err = "none"
       /\ warned /\ ret = "self"
       /\ InputUntouched /\ heap = heap0

C14_Witness ==
    pc = "leak_done" /\ lcmParms = <<>> /\ warned /\ ret = "self" /\ Len(heap[3]) = 3

\* C15: leakage_compensation with a fit model and cCompensation leave their
\* input alone and return another sample with the same time, voltage and
\* metadata and with new current and polarization arrays of the input's length.
C15_InputNotMutated ==
    /\ (caller \in {"leak", "cap"} /\ pc # "comp_idle") => InputUntouched
    /\ Compensated =>
          /\ \A f \in SampleFields : compData[f] \notin {data[g] : g \in SampleFields}
          /\ heap[compData.time] = heap0[data.time]
          /\ heap[compData.voltage] = heap0[data.voltage]
          /\ compData.dt = data.dt /\ compData.area = data.area
          /\ compData.current # compData.polarization
          /\ Len(heap[compData.current]) = Len(heap0[data.current])
          /\ Len(heap[compData.polarization]) = Len(heap0[data.polarization])

\* cCompensation has returned a current that differs from the input's
C15_Witness ==
    /\ pc = "cap_done" /\ ret = "copy"
    /\ heap[compData.current] # heap[data.current]
    /\ heap[compData.polarization] # heap[data.polarization]

\* C16: the current returned by leakage_compensation with a fit model is
\* current[j] - f(voltage[j]) - m with m the mean of current - f(voltage), and
\* it sums to zero.
C16_LeakageSubtractedMeanZero ==
    (pc = "leak_done" /\ ret = "copy") =>
       LET in == heap0[data.current]
           v == heap0[data.voltage]
           out == heap[compData.current]
           raw == [k \in 1..Len(in) |-> RatSub(in[k], LeakageFunc(v[k], lcmParms))]
           m == RatDiv(RatSum(raw), RatOfInt(Len(raw)))
       IN /\ Len(out) = Len(in)
          /\ \A k \in 1..Len(out) : out[k] = RatSub(raw[k], m)
          /\ RatSum(out) = Zero

\* a leakage that depends on the voltage was subtracted, and the mean was not 0
C16_Witness ==
    /\ pc = "leak_done" /\ ret = "copy"
    /\ lcmParms = <<1, 0, 0, 1, 0, 0, 1>>
    /\ RatSum(heap0[data.current]) # Zero
    /\ \E k \in 1..Len(heap0[data.voltage]) : heap0[data.voltage][k] # heap0[data.voltage][1]

\* C17: the returned polarization is the running sum of current[i] * dt / area
\* from the second sample on, shifted so that its maximum is minus its minimum.
C17_PolarizationIsCentredSum ==
    Compensated =>
       LET pol == heap[compData.polarization]
           cur == heap[compData.current]
       IN /\ Len(pol) = Len(cur)
          /\ \A i \in 2..Len(pol) :
                RatSub(pol[i], pol[i - 1]) = RatDiv(RatMul(cur[i], data.dt), data.area)
          /\ \E hi, lo \in 1..Len(pol) :
                /\ \A k \in 1..Len(pol) : RatLeq(pol[k], pol[hi]) /\ RatLeq(pol[lo], pol[k])
                /\ pol[hi] = RatNeg(pol[lo])

\* a leakage-compensated polarization that is not flat
C17_Witness ==
    /\ pc = "leak_done" /\ ret = "copy"
    /\ Len(heap[compData.polarization]) = 3
    /\ heap[compData.polarization][1] # heap[compData.polarization][2]
    /\ heap[compData.polarization][2] # heap[compData.polarization][3]

\* C18: with icap = C * mean(|dV/dt|), C >= 0, every sample of the
\* capacitance-compensated current has |I_out| = max(0, |I_in| - icap) and,
\* where it is not 0, the sign of I_in.
C18_CapacitiveCurrentRemoved ==
    pc \in {"cap_integrate", "cap_done"} =>
       LET in == heap0[data.current]
           out == heap[compData.current]
           icap == ICap(heap0[data.voltage], data.dt, filmC)
       IN /\ Len(out) = Len(in)
          /\ \A k \in 1..Len(in) :
                LET over == RatSub(RatAbs(in[k]), icap)
                IN /\ RatAbs(out[k]) = (IF over.num > 0 THEN over ELSE Zero)
                   /\ out[k] # Zero => RatSign(out[k]) = RatSign(in[k])

\* one sample below icap became 0, a negative one above icap stayed negative
C18_Witness ==
    /\ pc = "cap_done"
    /\ ICap(heap0[data.voltage], data.dt, filmC).num > 0
    /\ \E k \in 1..Len(heap0[data.current]) :
          heap0[data.current][k] # Zero /\ heap[compData.current][k] = Zero
    /\ \E k \in 1..Len(heap0[data.current]) :
          heap0[data.current][k].num < 0 /\ heap[compData.current][k].num < 0

\* C19: cCompensation returns pr = (max - min) / 2 of the re-integrated
\* polarization; pr >= 0 and the returned curve has maximum pr, minimum -pr.
C19_PrIsHalfSpan ==
    pc = "cap_done" =>
       LET pol == heap[compData.polarization]
           testpol == Integrate(heap[compData.current], data.dt, data.area)
       IN /\ prRet.num >= 0
          /\ RatAdd(prRet, prRet) = RatSub(RatMax(testpol), RatMin(testpol))
          /\ \A k \in 1..Len(pol) : RatLeq(pol[k], prRet) /\ RatLeq(RatNeg(prRet), pol[k])
          /\ \E k \in 1..Len(pol) : pol[k] = prRet
          /\ \E k \in 1..Len(pol) : pol[k] = RatNeg(prRet)

C19_Witness ==
    pc = "cap_done" /\ prRet.num > 0 /\ filmC.num > 0

\* C20: a lcm_fit that does not converge raises and leaves the coefficients as
\* they were, so a sample that was never fit with success keeps its empty
\* coefficients and leakage_compensation with it is the warning no-op;
\* coefficients are non-empty only after a fit that converged.
C20_FailedFitLeavesUnset ==
    /\ \A k \in 1..Len(fitLog) :
          ~fitLog[k].converged => fitLog[k].raised /\ fitLog[k].after = fitLog[k].before
    /\ (pc = "comp_idle" /\ fitLog # <<>> /\ ~fitLog[Len(fitLog)].converged) =>
          err = "RuntimeError: Optimal parameters not found"
    /\ lcmParms # <<>> => \E k \in 1..Len(fitLog) : fitLog[k].converged
    /\ (pc # "comp_idle" /\ caller = "leak"
           /\ \A k \in 1..Len(fitLog) : ~fitLog[k].converged) =>
          pc = "leak_done" /\ warned /\ ret = "self" /\ lcmParms = <<>>

\* leakage_compensation after a fit that did not converge
C20_Witness ==
    /\ pc = "leak_done" /\ fitLog # <<>> /\ ~fitLog[1].converged
    /\ warned /\ ret = "self"

----------------------------------------------------------------------------
(* Properties of cCalc *)

\* the distinct values of mean |dV/dt| among the samples of the files
DistinctSlopes == {MeanAbsSlope(files[k].voltage, files[k].dt) : k \in 1..Len(files)}

----------------------------------------------------------------------------
(* Properties of parmCalc *)

\* C22: after a parmCalc that returns normally the domain's (a, b, g) come
\* from a converged solve and satisfy a < 0, b > 0, g > 0; a solve that did
\* not converge or breaks the signs is reported and not stored.
C22_CoefficientsConvergedAndSigned ==
    pc = "parm_done" =>
       /\ solve.success
       /\ dom.a < 0 /\ dom.b > 0 /\ dom.g > 0

----------------------------------------------------------------------------
(* Properties of a repeated leakage_compensation *)

\* C23: leakage_compensation with a leakage function that is 0 everywhere,
\* applied to a sample that leakage_compensation returned, returns a sample
\* with the same current array and the same polarization curve.
C23_ZeroLeakageIdempotent ==
    (pc = "leak_done" /\ ret = "copy" /\ firstOut # <<>>) =>
       /\ heap[compData.current] = firstOut[1]
       /\ heap[compData.polarization] = firstOut[2]

\* the second compensation has returned, after a first one that subtracted a
\* voltage-dependent leakage from a current of non-zero mean
C23_Witness ==
    /\ pc = "leak_done" /\ ret = "copy" /\ firstOut # <<>>
    /\ RatSum(heap[3]) # Zero
    /\ firstOut[1] # heap[3]
    /\ \E k \in 1..Len(firstOut[2]) : firstOut[2][k] # Zero

====
